---- MODULE Spec2Model ----
(***************************************************************************)
(* PyVE: a PyQt dashboard for one Proxmox node (src/PyVE.py).              *)
(*                                                                         *)
(* The process is single-threaded: __main__ runs the startup connect       *)
(* sequence, then the Qt event loop runs one handler at a time (timer      *)
(* ticks, selection changes, button slots, tab changes).  Every action     *)
(* below is one attempt of the connect loop, one step of __main__, or one  *)
(* whole handler.                                                          *)
(*                                                                         *)
(* Texts the program parses back (the guest rows) are sequences of         *)
(* one-character strings, so that formatting and the regular expression    *)
(* are computed and not assumed.  Percentages are exact rationals          *)
(* <<numerator, denominator>>; the rounding error of float64 products is   *)
(* not modelled.                                                           *)
(***************************************************************************)
EXTENDS Integers, Sequences, FiniteSets, TLC

----------------------------------------------------------------------------
(* Bounds of the model *)

\* host fractions are k/FracDen, k \in 0..FracDen; memory totals are 1..FracDen
FracDen == 3
\* the node's inventory holds guest ids IdStep, 2*IdStep, .. MaxIds*IdStep
MaxIds == 2
IdStep == 7
\* a guest listing returns at most MaxGuests guests
MaxGuests == 2
\* at most MaxPending one-shot timers are outstanding at once
MaxPending == 2

(* Constants of the program *)

max_retries == 3
RETRY_SLEEP_S == 2
UPDATE_INTERVAL_MS == 10000
FIRST_TICK_MS == 150
REPOLL_MS == 2000

\* Python's None, and a present optional value
None == << >>
Some(x) == << x >>

----------------------------------------------------------------------------
(* Texts *)

Digits == << "0", "1", "2", "3", "4", "5", "6", "7", "8", "9" >>

IsDigit(c) == \E d \in 1..10 : Digits[d] = c

DigitValue(c) == (CHOOSE d \in 1..10 : Digits[d] = c) - 1

\* \s of the re module, for the characters that occur
IsSpace(c) == c = " "

\* str(n) for a non-negative int
RECURSIVE StrInt(_)
StrInt(n) == IF n < 10 THEN << Digits[n + 1] >>
             ELSE StrInt(n \div 10) \o << Digits[(n % 10) + 1] >>

\* int(s) for a string of digits
RECURSIVE IntStr(_)
IntStr(s) == IF s = << >> THEN 0
             ELSE 10 * IntStr(SubSeq(s, 1, Len(s) - 1)) + DigitValue(s[Len(s)])

NoneText == << "N", "o", "n", "e" >>
IdPrefix == << "I", "D", ":", " " >>
Bar == << " ", "|", " " >>
Disconnected == << "D", "i", "s", "c", "o", "n", "n", "e", "c", "t", "e", "d" >>

\* dict.get(key, default)
Get(d, key, default) == IF key \in DOMAIN d THEN d[key] ELSE default

\* f"{v}" of dict.get(key): the decimal digits of an int, "None" when absent
StrGet(d, key) == IF key \in DOMAIN d THEN StrInt(d[key]) ELSE NoneText

----------------------------------------------------------------------------
(* Guests and guest rows *)

Running == << "r", "u", "n", "n", "i", "n", "g" >>
Stopped == << "s", "t", "o", "p", "p", "e", "d" >>
Paused == << "p", "a", "u", "s", "e", "d" >>
GuestName == << "v", "m" >>

\* The k-th guest of the node's inventory, as the dict the API returns.  Guest 0
\* carries no 'vmid' key, the case the code's .get('vmid', 0) provides for.
GuestOf(k) ==
    IF k = 0 THEN [name |-> GuestName, status |-> Paused]
    ELSE [vmid |-> IdStep * k, name |-> GuestName,
          status |-> IF k % 2 = 1 THEN Running ELSE Stopped]

Inventory == { GuestOf(k) : k \in 0..MaxIds }

\* the elements of S, enumerated once
Enumerated(S) == { x : x \in S }

\* what node.qemu.get() or node.lxc.get() can return: guests in any order
Responses ==
    { r \in Enumerated(UNION { [1..n -> Inventory] : n \in 0..MaxGuests }) :
        \A i, j \in DOMAIN r : i # j => r[i] # r[j] }

\* the node as one poll finds it: at most MaxGuests guests, each a VM or a container
Nodes ==
    { n \in Enumerated([vms : Responses, containers : Responses]) :
        /\ Len(n.vms) + Len(n.containers) <= MaxGuests
        /\ \A i \in DOMAIN n.vms, j \in DOMAIN n.containers :
               n.vms[i] # n.containers[j] }

\* the nodes that hold at most one guest
SmallNodes == { n \in Nodes : Len(n.vms) + Len(n.containers) <= 1 }

\* the node that holds one VM, before and after the VM is created
OneVmNodes == { [vms |-> r, containers |-> << >>] : r \in { << >>, << GuestOf(1) >> } }

\* the node without guests
EmptyNodes == { n \in Nodes : Len(n.vms) + Len(n.containers) = 0 }

\* key=lambda x: x.get('vmid', 0)
SortKey(g) == Get(g, "vmid", 0)

\* a slip: the listing rendered in the order the API returned it
AsReturned(s) == s

\* sorted(guests, key=...): stable, ascending by key
RECURSIVE SortedByVmid(_)
SortedByVmid(s) ==
    IF s = << >> THEN << >>
    ELSE LET rest == SortedByVmid(SubSeq(s, 1, Len(s) - 1))
             x == s[Len(s)]
             n == Cardinality({ i \in DOMAIN rest : SortKey(rest[i]) <= SortKey(x) })
         IN  SubSeq(rest, 1, n) \o << x >> \o SubSeq(rest, n + 1, Len(rest))

\* f"ID: {g.get('vmid')} | {g.get('name')} | {g.get('status')}"
ItemText(g) == IdPrefix \o StrGet(g, "vmid") \o Bar \o g.name \o Bar \o g.status

\* the QListWidgetItem of one guest: its text and its status colour
GuestItem(g) ==
    [text |-> ItemText(g),
     background |-> IF g.status = Running THEN "#4CAF50"
                    ELSE IF g.status = Stopped THEN "#F44336" ELSE "default"]

\* the rows one listing is rendered to, in display order
GuestItems(guests) ==
    LET s == SortedByVmid(guests) IN [i \in DOMAIN s |-> GuestItem(s[i])]

\* GuestItems, tabulated over the listings of the model
ItemsOf == [guests \in Responses |-> GuestItems(guests)]

\* QListWidget.addItem("Disconnected")
DisconnectedItem == [text |-> Disconnected, background |-> "default"]

\* re.search(r'ID:\s*(\d+)', text): int(group(1)) of the leftmost match, or None
RECURSIVE SkipSpaces(_, _)
SkipSpaces(t, j) == IF j <= Len(t) /\ IsSpace(t[j]) THEN SkipSpaces(t, j + 1) ELSE j

RECURSIVE DigitsEnd(_, _)
DigitsEnd(t, j) == IF j <= Len(t) /\ IsDigit(t[j]) THEN DigitsEnd(t, j + 1) ELSE j

MatchesAt(t, i) ==
    /\ i + 2 <= Len(t)
    /\ t[i] = "I" /\ t[i + 1] = "D" /\ t[i + 2] = ":"
    /\ LET j == SkipSpaces(t, i + 3) IN j <= Len(t) /\ IsDigit(t[j])

\* a slip: "int(match.group(1)) if match else 0"
SearchVmidOrZero(t) ==
    LET hits == { i \in 1..Len(t) : MatchesAt(t, i) } IN
    IF hits = {} THEN Some(0)
    ELSE LET i == CHOOSE h \in hits : \A o \in hits : h <= o
             j == SkipSpaces(t, i + 3)
         IN  Some(IntStr(SubSeq(t, j, DigitsEnd(t, j) - 1)))

SearchVmid(t) ==
    LET hits == { i \in 1..Len(t) : MatchesAt(t, i) } IN
    IF hits = {} THEN None
    ELSE LET i == CHOOSE h \in hits : \A o \in hits : h <= o
             j == SkipSpaces(t, i + 3)
         IN  Some(IntStr(SubSeq(t, j, DigitsEnd(t, j) - 1)))

----------------------------------------------------------------------------
(* Host status and gauges *)

\* x * 100 for a rational x
Times100(q) == << q[1] * 100, q[2] >>

\* a slip: round(x) for int(x), halves rounded up
ToNearest(q) == (2 * q[1] + q[2]) \div (2 * q[2])

\* int(x) for a non-negative rational x: truncation
ToInt(q) == q[1] \div q[2]

\* (used / total) * 100 if total > 0 else 0
UsagePercent(d) ==
    LET used == Get(d, "used", 0)
        total == Get(d, "total", 1)
    IN  IF total > 0 THEN Times100(<< used, total >>) ELSE << 0, 1 >>

\* f"{x:.1f}": x in tenths, rounded to nearest, ties to even
Tenths(q) ==
    LET n == q[1] * 10
        lo == n \div q[2]
        twice == 2 * (n % q[2])
    IN  IF twice > q[2] \/ (twice = q[2] /\ lo % 2 = 1) THEN lo + 1 ELSE lo

\* a status dict of node.status.get(): fractions as rationals, sizes in GiB
HostStatus(cpu, wait, mem, disk) ==
    [cpu |-> << cpu, FracDen >>, wait |-> << wait, FracDen >>,
     cpuinfo |-> [cores |-> 4, cpus |-> 8], memory |-> mem, rootfs |-> disk]

Usages == { [used |-> u, total |-> t] : t \in 1..FracDen, u \in 0..FracDen }

\* the valid statuses within the bounds: fractions in [0,1], 0 < total, used <= total
\* (the root file system is taken as full as the memory is free)
ValidHostStatus ==
    { HostStatus(c, w, m, [used |-> m.total - m.used, total |-> m.total]) :
        c \in 0..FracDen, w \in 0..FracDen,
        m \in { x \in Usages : x.used <= x.total } }

\* one load level across the four fields
LoadAt(k) ==
    HostStatus(k, FracDen - k, [used |-> k, total |-> FracDen],
               [used |-> FracDen - k, total |-> FracDen])

\* the statuses the polls of a busy node see
PollStatuses == { LoadAt(k) : k \in 0..FracDen }

\* the status of a node whose load does not change
SteadyStatuses == { LoadAt(1) }

\* the statuses of a node that is either lightly loaded or saturated
TwoStatuses == { LoadAt(1), LoadAt(FracDen) }

\* the texts of the four labels
Label(fmt, args) == [fmt |-> fmt, args |-> args]

\* update_stats, the host half: what the four labels and bars are set to
HostGauges(status) ==
    LET cpu_percent == Times100(Get(status, "cpu", << 0, 1 >>))
        cpu_info == Get(status, "cpuinfo", [cores |-> 0, cpus |-> 0])
        memory == Get(status, "memory", [used |-> 0, total |-> 1])
        rootfs == Get(status, "rootfs", [used |-> 0, total |-> 1])
        ram_percent == UsagePercent(memory)
        disk_percent == UsagePercent(rootfs)
        io_delay == Times100(Get(status, "wait", << 0, 1 >>))
    IN  [cpu_label |-> Label("CPU ({} cores, {} threads)",
                             << cpu_info.cores, cpu_info.cpus >>),
         cpu_bar |-> ToInt(cpu_percent),
         ram_label |-> Label("RAM ({:.1f}/{:.1f} GiB)",
                             << Tenths(<< Get(memory, "used", 0), 1 >>),
                                Tenths(<< Get(memory, "total", 1), 1 >>) >>),
         ram_bar |-> ToInt(ram_percent),
         disk_label |-> Label("Disk ({:.1f}/{:.1f} GiB)",
                              << Tenths(<< Get(rootfs, "used", 0), 1 >>),
                                 Tenths(<< Get(rootfs, "total", 1), 1 >>) >>),
         disk_bar |-> ToInt(disk_percent),
         iodelay_label |-> Label("I/O Delay", << >>),
         iodelay_format |-> Label("{:.1f}%", << Tenths(io_delay) >>),
         iodelay_bar |-> ToInt(io_delay)]

\* HostGauges, tabulated over the statuses of the model
GaugesOf == [status \in ValidHostStatus |-> HostGauges(status)]

\* init_pyve_tab: the overview tab as constructed
InitialGauges(connected) ==
    LET initial_state == IF connected THEN "Connecting..." ELSE "Error"
        initial_cores_threads == IF connected THEN "Fetching..." ELSE "N/A"
    IN  [cpu_label |-> Label("CPU ({})", << initial_cores_threads >>),
         cpu_bar |-> 0,
         ram_label |-> Label("RAM: {}", << initial_state >>),
         ram_bar |-> 0,
         disk_label |-> Label("Disk: {}", << initial_state >>),
         disk_bar |-> 0,
         iodelay_label |-> Label("I/O Delay: {}", << initial_state >>),
         iodelay_format |-> Label("%p%", << >>),
         iodelay_bar |-> 0]

\* set_error_state: the four labels, the bars untouched
set_error_state(g) ==
    [g EXCEPT !.cpu_label = Label("CPU ({})", << "N/A" >>),
              !.ram_label = Label("RAM: {}", << "Error" >>),
              !.disk_label = Label("Disk: {}", << "Error" >>),
              !.iodelay_label = Label("I/O Delay: {}", << "Error" >>)]

----------------------------------------------------------------------------
(* State *)

VARIABLES
    pc,                        \* where __main__ is: "connecting", "returned",
                               \* "running" (inside app.exec_()), "exited"
    calls,                     \* calls of initialize_proxmox_connection so far
    outcomes,                  \* the current call's attempts, one outcome each
    slept,                     \* the time.sleep() calls of the current call
    attempts,                  \* connect attempts over the life of the process
    result,                    \* the current call's return value, None while it runs
    proxmox,                   \* the global handle
    connection_error_details,  \* the global last error
    questions,                 \* "Retry connection?" dialogs shown
    exit_status,               \* the status of sys.exit, None while alive
    monitor,                   \* None, or Some(TRUE) once MonitorApp() is constructed
    gauges,                    \* the four labels and bars of the overview tab
    vm_tab,                    \* vm_list, its selection and its four buttons
    container_tab,             \* container_list, its selection and its four buttons
    update_timer,              \* the periodic QTimer is running
    single_shots,              \* pending QTimer.singleShot delays, in expiry order
    last                       \* what the latest handler did: dialogs, calls, log

vars == << pc, calls, outcomes, slept, attempts, result, proxmox,
           connection_error_details, questions, exit_status, monitor, gauges,
           vm_tab, container_tab, update_timer, single_shots, last >>

connection == << calls, outcomes, slept, attempts, result, proxmox,
                 connection_error_details, questions >>

dashboard == << monitor, gauges, vm_tab, container_tab, update_timer,
                single_shots, last >>

Kinds == { "vm", "container" }
Actions == { "start", "stop", "reboot", "shutdown" }

\* the exceptions a call of the API raises
Errors == { [type |-> "ResourceException", detail |-> "403 Forbidden"],
            [type |-> "Exception", detail |-> "timed out"] }

\* how one connect attempt can end: ProxmoxAPI(...) raises, version.get() raises,
\* or both pass
AttemptOutcomes == { "ok", "ctor_raises", "probe_raises" }

----------------------------------------------------------------------------
(* The startup connect sequence *)

\* the handle once ProxmoxAPI(...) has returned
Client == Some("ProxmoxAPI")

\* f"Proxmox connection error (attempt {attempt + 1}/{max_retries}): {e}"
ConnectionError(attempt, e) ==
    Some([fmt |-> "Proxmox connection error (attempt {}/{}): {}",
          args |-> << attempt + 1, max_retries, e >>])

\* a slip: the sleep taken after every failed attempt
SleepsAfterEvery(attempt) == attempt < max_retries

\* the except branch sleeps unless the attempt was the last
SleepsAfter(attempt) == attempt < max_retries - 1

\* the for loop runs while attempts remain
LoopContinues(attempt) == attempt + 1 < max_retries

Init ==
    /\ pc = "connecting"
    /\ calls = 1
    /\ outcomes = << >>
    /\ slept = << >>
    /\ attempts = 0
    /\ result = None
    /\ proxmox = None
    /\ connection_error_details = None
    /\ questions = 0
    /\ exit_status = None
    /\ monitor = None
    /\ gauges = None
    /\ vm_tab = None
    /\ container_tab = None
    /\ update_timer = FALSE
    /\ single_shots = << >>
    /\ last = [op |-> "none"]

\* one pass of the for loop of initialize_proxmox_connection
Attempt(o) ==
    LET attempt == Len(outcomes) IN
    /\ pc = "connecting"
    /\ outcomes' = Append(outcomes, o)
    /\ attempts' = attempts + 1
    /\ proxmox' = IF o = "ctor_raises" THEN proxmox ELSE Client
    /\ IF o = "ok"
       THEN /\ result' = Some(TRUE)
            /\ pc' = "returned"
            /\ UNCHANGED << connection_error_details, slept >>
       ELSE /\ connection_error_details' = ConnectionError(attempt, o)
            /\ slept' = IF SleepsAfter(attempt)
                        THEN Append(slept, RETRY_SLEEP_S) ELSE slept
            /\ IF LoopContinues(attempt)
               THEN UNCHANGED << result, pc >>
               ELSE result' = Some(FALSE) /\ pc' = "returned"
    /\ UNCHANGED << calls, questions, exit_status >>
    /\ UNCHANGED dashboard

Connect == \E o \in AttemptOutcomes : Attempt(o)

----------------------------------------------------------------------------
(* __main__ after a connect sequence *)

\* a list with its four buttons as init_vm_tab / init_container_tab leave them
ButtonStates(enabled) == [a \in Actions |-> enabled]

InitialTab == [items |-> << >>, selected |-> 0, buttons |-> ButtonStates(FALSE)]

\* MonitorApp(): init_ui and setup_update_timer
ConstructMonitor ==
    /\ monitor' = Some(TRUE)
    /\ gauges' = IF proxmox = None
                 THEN set_error_state(InitialGauges(FALSE))
                 ELSE InitialGauges(TRUE)
    /\ vm_tab' = InitialTab
    /\ container_tab' = InitialTab
    /\ update_timer' = TRUE
    /\ single_shots' = << FIRST_TICK_MS >>
    /\ UNCHANGED last

\* a slip: the question asked again after the second sequence
MayRetryAgain(n) == n < 3

\* whether __main__ asks for a second sequence after a failed one
MayRetry(n) == n < 2

\* line 502 or 507 saw True: the dashboard is built and the event loop entered
MainShow ==
    /\ pc = "returned"
    /\ result = Some(TRUE)
    /\ ConstructMonitor
    /\ pc' = "running"
    /\ UNCHANGED connection
    /\ UNCHANGED exit_status

\* line 502 saw False: the question dialog, and what follows the answer
MainQuestion(retry) ==
    /\ pc = "returned"
    /\ result = Some(FALSE)
    /\ MayRetry(calls)
    /\ questions' = questions + 1
    /\ IF retry = "Yes"
       THEN /\ pc' = "connecting"
            /\ calls' = calls + 1
            /\ outcomes' = << >>
            /\ slept' = << >>
            /\ result' = None
            /\ UNCHANGED exit_status
       ELSE /\ pc' = "exited"
            /\ exit_status' = Some(1)
            /\ UNCHANGED << calls, outcomes, slept, result >>
    /\ UNCHANGED << attempts, proxmox, connection_error_details >>
    /\ UNCHANGED dashboard

Question == \E retry \in { "Yes", "No" } : MainQuestion(retry)

\* line 507 saw False: sys.exit(1)
MainGiveUp ==
    /\ pc = "returned"
    /\ result = Some(FALSE)
    /\ ~MayRetry(calls)
    /\ pc' = "exited"
    /\ exit_status' = Some(1)
    /\ UNCHANGED connection
    /\ UNCHANGED dashboard

\* on_tab_changed(exit_tab_index): QApplication.quit(), exec_() returns 0
ExitTab ==
    /\ pc = "running"
    /\ pc' = "exited"
    /\ exit_status' = Some(0)
    /\ last' = [op |-> "on_tab_changed"]
    /\ UNCHANGED << monitor, gauges, vm_tab, container_tab, update_timer,
                    single_shots >>
    /\ UNCHANGED connection

----------------------------------------------------------------------------
(* The two guest lists *)

Tab(kind) == IF kind = "vm" THEN vm_tab ELSE container_tab

\* update_vm_button_state / update_container_button_state
update_button_state(tab) ==
    [tab EXCEPT !.buttons = ButtonStates(tab.selected # 0)]

\* itemSelectionChanged is connected to the list's update_*_button_state
itemSelectionChanged(tab) == update_button_state(tab)

\* a slip: the rows dropped by a model reset, which emits no selection signal
ListClearQuietly(tab) == [tab EXCEPT !.items = << >>, !.selected = 0]

\* QListWidget.clear(): the selection is cleared first, which emits
\* itemSelectionChanged when a row was selected; then the rows are deleted
ListClear(tab) ==
    LET cleared == [tab EXCEPT !.items = << >>, !.selected = 0] IN
    IF tab.selected # 0 THEN itemSelectionChanged(cleared) ELSE cleared

\* QListWidget.addItem for each of the items, in order
ListAddItems(tab, items) == [tab EXCEPT !.items = tab.items \o items]

\* the user selects row i (single selection), or takes the selection away
SetSelection(tab, i) ==
    IF i = tab.selected THEN tab
    ELSE itemSelectionChanged([tab EXCEPT !.selected = i])

Select(kind, i) ==
    /\ pc = "running"
    /\ i \in 0..Len(Tab(kind).items)
    /\ i # Tab(kind).selected
    /\ IF kind = "vm"
       THEN vm_tab' = SetSelection(vm_tab, i) /\ UNCHANGED container_tab
       ELSE container_tab' = SetSelection(container_tab, i) /\ UNCHANGED vm_tab
    /\ last' = [op |-> "select", kind |-> kind]
    /\ UNCHANGED << pc, exit_status, monitor, gauges, update_timer, single_shots >>
    /\ UNCHANGED connection

SelectionChange == \E kind \in Kinds, i \in 0..MaxGuests : Select(kind, i)

----------------------------------------------------------------------------
(* update_stats *)

\* logger.error of the two except clauses
TickLog(e) ==
    IF e.type = "ResourceException"
    THEN Label("Proxmox API error: {}", << e.detail >>)
    ELSE Label("Unexpected error in update_stats: {}", << e.detail >>)

\* the tick as far as it got: the delay of the timer that fired, how the tick
\* ended, what it fetched and what it logged
TickRecord(timer, outcome, fetched, log) ==
    [op |-> "update_stats", timer |-> timer, outcome |-> outcome,
     fetched |-> fetched, log |-> log]

\* lines 402-408: no handle
TickDisconnected(timer) ==
    /\ proxmox = None
    /\ gauges' = set_error_state(gauges)
    /\ vm_tab' = ListAddItems(ListClear(vm_tab), << DisconnectedItem >>)
    /\ container_tab' = ListAddItems(ListClear(container_tab), << DisconnectedItem >>)
    /\ last' = TickRecord(timer, "disconnected", << >>, None)
    /\ UNCHANGED << update_timer, connection >>

\* a slip: "global proxmox; proxmox = None" in the except clauses
TickStatusFailsDisconnects(timer, e) ==
    /\ proxmox # None
    /\ proxmox' = None
    /\ connection_error_details' = Some(TickLog(e))
    /\ UNCHANGED << gauges, vm_tab, container_tab >>
    /\ last' = TickRecord(timer, "status_raises", << >>, Some(TickLog(e)))
    /\ UNCHANGED << update_timer, calls, outcomes, slept, attempts, result, questions >>

\* node.status.get() raises: nothing was set yet
TickStatusFails(timer, e) ==
    /\ proxmox # None
    /\ UNCHANGED << gauges, vm_tab, container_tab >>
    /\ last' = TickRecord(timer, "status_raises", << >>, Some(TickLog(e)))
    /\ UNCHANGED << update_timer, connection >>

\* a slip: "self.update_timer.stop()" in the except clauses
TickQemuFailsStopsTimer(timer, status, e) ==
    /\ proxmox # None
    /\ gauges' = GaugesOf[status]
    /\ UNCHANGED << vm_tab, container_tab >>
    /\ last' = TickRecord(timer, "qemu_raises", << status >>, Some(TickLog(e)))
    /\ update_timer' = FALSE
    /\ UNCHANGED connection

\* node.qemu.get() raises: the gauges were set at lines 414-436
TickQemuFails(timer, status, e) ==
    /\ proxmox # None
    /\ gauges' = GaugesOf[status]
    /\ UNCHANGED << vm_tab, container_tab >>
    /\ last' = TickRecord(timer, "qemu_raises", << status >>, Some(TickLog(e)))
    /\ UNCHANGED << update_timer, connection >>

\* a slip: both lists cleared ahead of the fetches
TickLxcFailsCleared(timer, status, vms, e) ==
    /\ proxmox # None
    /\ gauges' = GaugesOf[status]
    /\ vm_tab' = ListAddItems(ListClear(vm_tab), ItemsOf[vms])
    /\ container_tab' = ListClear(container_tab)
    /\ last' = TickRecord(timer, "lxc_raises", << status, vms >>, Some(TickLog(e)))
    /\ UNCHANGED << update_timer, connection >>

\* node.lxc.get() raises: the gauges and the VM list were set at lines 414-449
TickLxcFails(timer, status, vms, e) ==
    /\ proxmox # None
    /\ gauges' = GaugesOf[status]
    /\ vm_tab' = ListAddItems(ListClear(vm_tab), ItemsOf[vms])
    /\ UNCHANGED container_tab
    /\ last' = TickRecord(timer, "lxc_raises", << status, vms >>, Some(TickLog(e)))
    /\ UNCHANGED << update_timer, connection >>

\* all three fetches return
TickCompletes(timer, status, vms, containers) ==
    /\ proxmox # None
    /\ gauges' = GaugesOf[status]
    /\ vm_tab' = ListAddItems(ListClear(vm_tab), ItemsOf[vms])
    /\ container_tab' = ListAddItems(ListClear(container_tab), ItemsOf[containers])
    /\ last' = TickRecord(timer, "ok", << status, vms, containers >>, None)
    /\ UNCHANGED << update_timer, connection >>

\* the handler, over the statuses and the nodes the backend may answer with
update_stats(timer, statuses, nodes) ==
    \/ TickDisconnected(timer)
    \/ \E e \in Errors : TickStatusFails(timer, e)
    \/ \E status \in statuses, e \in Errors : TickQemuFails(timer, status, e)
    \/ \E status \in statuses, n \in nodes, e \in Errors :
           TickLxcFails(timer, status, n.vms, e)
    \/ \E status \in statuses, n \in nodes :
           TickCompletes(timer, status, n.vms, n.containers)

\* a QTimer.singleShot expires: the 150 ms first tick or a 2000 ms re-poll
SingleShotTick(statuses, nodes) ==
    /\ pc = "running"
    /\ single_shots # << >>
    /\ single_shots' = Tail(single_shots)
    /\ update_stats(Head(single_shots), statuses, nodes)
    /\ UNCHANGED << pc, exit_status, monitor >>

\* update_timer.timeout, every UPDATE_INTERVAL_MS; the 150 ms shot comes first
TimerTick(statuses, nodes) ==
    /\ pc = "running"
    /\ update_timer
    /\ \A i \in DOMAIN single_shots : single_shots[i] # FIRST_TICK_MS
    /\ FIRST_TICK_MS < UPDATE_INTERVAL_MS
    /\ update_stats(UPDATE_INTERVAL_MS, statuses, nodes)
    /\ UNCHANGED << pc, exit_status, monitor, single_shots >>

----------------------------------------------------------------------------
(* The command dispatcher *)

ItemType(kind) == IF kind = "vm" THEN "VM" ELSE "CT"

\* QMessageBox.warning(self, "Selection", f"Select a {item_type} first.")
SelectionWarning(kind) ==
    [icon |-> "warning", title |-> "Selection",
     text |-> Label("Select a {} first.", << ItemType(kind) >>)]

\* QMessageBox.critical(self, "Error", ...) of the two except clauses
ActionError(e) ==
    [icon |-> "critical", title |-> "Error",
     text |-> IF e.type = "ResourceException"
              THEN Label("Action failed: {}", << e.detail >>)
              ELSE Label("Unexpected error: {}", << e.detail >>)]

\* a slip: the empty selection returned without the warning
get_selected_vmid_silently(tab, kind) ==
    IF tab.selected = 0
    THEN [vmid |-> None, dialog |-> None]
    ELSE [vmid |-> SearchVmid(tab.items[tab.selected].text), dialog |-> None]

\* _get_selected_vmid: the id parsed from the selected row, and the dialog shown
get_selected_vmid(tab, kind) ==
    IF tab.selected = 0
    THEN [vmid |-> None, dialog |-> Some(SelectionWarning(kind))]
    ELSE [vmid |-> SearchVmid(tab.items[tab.selected].text), dialog |-> None]

\* the POST of line 483
ActionCall(kind, vmid, action) ==
    [resource |-> IF kind = "vm" THEN "qemu" ELSE "lxc",
     vmid |-> vmid, action |-> action]

\* a slip: the re-poll scheduled on entry and again after the POST
ScheduleRepollTwice(shots) == shots \o << REPOLL_MS, REPOLL_MS >>

\* the timers pending after QTimer.singleShot(2000, self.update_stats)
ScheduleRepoll(shots) == Append(shots, REPOLL_MS)

\* what one dispatch did: the dialog it showed, the API call it issued and what
\* the call raised
ActionRecord(kind, action, dialog, call, raised) ==
    [op |-> "action", kind |-> kind, action |-> action, dialog |-> dialog,
     call |-> call, raised |-> raised]

\* start_vm .. shutdown_container: _perform_action(_get_selected_vmid(..), ..);
\* raised is what the POST raises, None when it returns
perform_action(kind, action, raised) ==
    LET got == get_selected_vmid(Tab(kind), kind) IN
    /\ pc = "running"
    /\ IF got.vmid = None \/ proxmox = None
       THEN /\ raised = None
            /\ last' = ActionRecord(kind, action, got.dialog, None, None)
            /\ UNCHANGED single_shots
       ELSE LET call == Some(ActionCall(kind, got.vmid[1], action)) IN
            IF raised = None
            THEN /\ Len(single_shots) < MaxPending
                 /\ single_shots' = ScheduleRepoll(single_shots)
                 /\ last' = ActionRecord(kind, action, got.dialog, call, None)
            ELSE /\ UNCHANGED single_shots
                 /\ last' = ActionRecord(kind, action, Some(ActionError(raised[1])),
                                         call, raised)
    /\ UNCHANGED << pc, exit_status, monitor, gauges, vm_tab, container_tab,
                    update_timer >>
    /\ UNCHANGED connection

Dispatch ==
    \E kind \in Kinds, action \in Actions,
       raised \in { None } \cup { Some(e) : e \in Errors } :
        perform_action(kind, action, raised)

----------------------------------------------------------------------------
(* The program *)

\* the program in an environment: the statuses and nodes its polls may find
Run(statuses, nodes) ==
    \/ Connect
    \/ MainShow
    \/ Question
    \/ MainGiveUp
    \/ SelectionChange
    \/ SingleShotTick(statuses, nodes)
    \/ TimerTick(statuses, nodes)
    \/ Dispatch
    \/ ExitTab

\* the program from its launch, on a steady node of at most one VM
Next == Run(SteadyStatuses, OneVmNodes)

Spec == Init /\ [][Next]_vars

\* the state once the first attempt has succeeded and __main__ has built the
\* dashboard and entered the event loop
InitRunning ==
    /\ pc = "running"
    /\ calls = 1
    /\ outcomes = << "ok" >>
    /\ slept = << >>
    /\ attempts = 1
    /\ result = Some(TRUE)
    /\ proxmox = Client
    /\ connection_error_details = None
    /\ questions = 0
    /\ exit_status = None
    /\ monitor = Some(TRUE)
    /\ gauges = InitialGauges(TRUE)
    /\ vm_tab = InitialTab
    /\ container_tab = InitialTab
    /\ update_timer = TRUE
    /\ single_shots = << FIRST_TICK_MS >>
    /\ last = [op |-> "none"]

\* the running dashboard with its operator, on a steady node of at most one guest
NextDashboard ==
    \/ SelectionChange
    \/ SingleShotTick(SteadyStatuses, SmallNodes)
    \/ TimerTick(SteadyStatuses, SmallNodes)
    \/ Dispatch
    \/ ExitTab

SpecDashboard == InitRunning /\ [][NextDashboard]_vars

\* the running dashboard polling a node of any guests, left alone by the operator
NextPolls ==
    \/ SingleShotTick(TwoStatuses, Nodes)
    \/ TimerTick(TwoStatuses, Nodes)
    \/ ExitTab

SpecPolls == InitRunning /\ [][NextPolls]_vars

\* the running dashboard polling a node without guests, over every valid status
NextGauges ==
    \/ SingleShotTick(ValidHostStatus, EmptyNodes)
    \/ TimerTick(ValidHostStatus, EmptyNodes)
    \/ ExitTab

SpecGauges == InitRunning /\ [][NextGauges]_vars

\* the timers of the running dashboard: the first tick and the periodic ticks
\* on a node of at most one guest
NextTimer ==
    \/ SingleShotTick(TwoStatuses, SmallNodes)
    \/ TimerTick(TwoStatuses, SmallNodes)
    \/ ExitTab

\* the event loop fires a pending single shot and the periodic timer while it runs
SpecTimer ==
    /\ InitRunning
    /\ [][NextTimer]_vars
    /\ WF_vars(SingleShotTick(TwoStatuses, SmallNodes))
    /\ WF_vars(TimerTick(TwoStatuses, SmallNodes))

----------------------------------------------------------------------------
(* The claims *)

Last(s) == s[Len(s)]

Failed(o) == o # "ok"

\* C1: one run of the connect sequence makes at most 3 attempts, stops at the
\* first success and then reports Connected (True, handle set), reports Failed
\* (False) only after 3 failed attempts, and sleeps 2 s only between two
\* attempts: once after each failed attempt but the third, never after a success.
C1_ConnectSequence ==
    LET n == Len(outcomes)
        fails == Cardinality({ i \in 1..n : Failed(outcomes[i]) })
    IN  /\ n <= 3
        /\ \A i \in 1..(n - 1) : Failed(outcomes[i])
        /\ (result = Some(TRUE)) <=> (n > 0 /\ Last(outcomes) = "ok")
        /\ result = Some(TRUE) => proxmox # None
        /\ (result = Some(FALSE)) <=> (fails = 3)
        /\ result = None => pc = "connecting"
        /\ Len(slept) = IF fails = 3 THEN 2 ELSE fails
        /\ \A i \in 1..Len(slept) : slept[i] = 2

\* the second attempt of a sequence succeeded after one sleep
C1_Witness ==
    /\ outcomes = << "probe_raises", "ok" >>
    /\ result = Some(TRUE)
    /\ slept = << 2 >>

\* C2: the operator is asked at most once, and only after a failed sequence; the
\* sequence runs at most twice, so at most 6 attempts are made; a declined
\* question or a failed second sequence ends the process with status 1, no
\* dashboard ever built and no poll tick ever run; a dashboard exists only after
\* a sequence that returned True.
C2_Launch ==
    /\ questions <= 1 /\ calls <= 2 /\ attempts <= 6
    /\ questions = calls - 1 \/ (questions = 1 /\ calls = 1)
    /\ questions = 1 => attempts >= 3
    /\ (questions = 1 /\ calls = 1) => exit_status = Some(1)
    /\ (pc = "exited" /\ result = Some(FALSE)) => exit_status = Some(1)
    /\ (calls = 2 /\ result = Some(FALSE)) => pc \in { "returned", "exited" }
    /\ exit_status = Some(1) => result = Some(FALSE)
    /\ result # Some(TRUE) =>
          /\ monitor = None
          /\ last.op = "none"
          /\ single_shots = << >> /\ ~update_timer
    /\ exit_status \in { None, Some(0), Some(1) }

\* both sequences failed and the process has exited with status 1
C2_Witness ==
    /\ pc = "exited"
    /\ exit_status = Some(1)
    /\ calls = 2
    /\ attempts = 6
    /\ monitor = None

\* the first tick of the dashboard: the 150 ms single shot
FirstTickRan == last.op = "update_stats" /\ last.timer = FIRST_TICK_MS

\* the first connect sequence returned False
FirstSequenceFailed == calls = 2 \/ result = Some(FALSE)

ShowsDisconnected(tab) ==
    Len(tab.items) = 1 /\ tab.items[1].text = Disconnected

ShowsError(label) == \E a \in { "Error", "N/A" } : label.args = << a >>

\* C6: when the initial connection failed 3 times, the handle is absent and the
\* first poll tick shows "Disconnected" in both lists and error text in the
\* four host labels.
C6_DisconnectedFirstTick ==
    (FirstSequenceFailed /\ FirstTickRan) =>
        /\ proxmox = None
        /\ ShowsDisconnected(vm_tab)
        /\ ShowsDisconnected(container_tab)
        /\ ShowsError(gauges.cpu_label)
        /\ ShowsError(gauges.ram_label)
        /\ ShowsError(gauges.disk_label)
        /\ ShowsError(gauges.iodelay_label)

----------------------------------------------------------------------------
(* Dispatch *)

\* the handler of this step was a dispatch
Dispatched == last'.op = "action"

\* the text of the row selected in the list the dispatch was about
SelectedText == Tab(last'.kind).items[Tab(last'.kind).selected].text

\* the dialog of this dispatch is the blocking error box with the detail of e
ShowsActionError(e) ==
    /\ last'.dialog # None
    /\ last'.dialog[1].icon = "critical"
    /\ last'.dialog[1].text.args = << e.detail >>

\* the dialog of this dispatch is the warning to select a row first
ShowsSelectionWarning ==
    /\ last'.dialog # None
    /\ last'.dialog[1].icon = "warning"
    /\ last'.dialog[1].title = "Selection"

\* C3: a dispatch whose API call returns schedules exactly one re-poll, 2000 ms
\* out, behind the timers already pending, and shows no dialog; one whose call
\* raises schedules none, shows the error box with the failure detail and leaves
\* the process running; no other handler adds a pending re-poll, and a tick
\* consumes at most the one shot that fired.
C3_ActionRepoll ==
    [][ /\ (Dispatched /\ last'.call # None /\ last'.raised = None) =>
              /\ single_shots' = Append(single_shots, 2000)
              /\ last'.dialog = None
        /\ (Dispatched /\ last'.call # None /\ last'.raised # None) =>
              /\ single_shots' = single_shots
              /\ ShowsActionError(last'.raised[1])
              /\ pc' = "running" /\ exit_status' = None
        /\ ~Dispatched =>
              \/ single_shots' = single_shots
              \/ last'.op = "update_stats" /\ single_shots' = Tail(single_shots)
      ]_vars

\* two dispatches have succeeded and both their re-polls are pending
C3_Witness ==
    /\ last.op = "action"
    /\ last.call # None
    /\ last.raised = None
    /\ single_shots = << 2000, 2000 >>

\* C4: a dispatch on a list with no row selected shows the warning, issues no
\* API call and schedules no re-poll.
C4_NoSelection ==
    [][ (Dispatched /\ Tab(last'.kind).selected = 0) =>
            /\ ShowsSelectionWarning
            /\ last'.call = None
            /\ single_shots' = single_shots
      ]_vars

\* a reboot was dispatched on the empty selection of a list that has a row
C4_Witness ==
    /\ last.op = "action"
    /\ last.action = "reboot"
    /\ Tab(last.kind).selected = 0
    /\ Tab(last.kind).items # << >>
    /\ last.dialog # None

\* the row selected for this dispatch holds no "ID:" followed by digits
Unparseable == /\ Tab(last'.kind).selected # 0
               /\ \A i \in 1..Len(SelectedText) : ~MatchesAt(SelectedText, i)

\* C10 as claimed: a dispatch on a selected row without a recognizable id ends
\* as a dispatch without selection does: warning, no API call, no re-poll.
C10_AsClaimed ==
    [][ (Dispatched /\ Unparseable) =>
            /\ ShowsSelectionWarning
            /\ last'.call = None
            /\ single_shots' = single_shots
      ]_vars

\* C10 as amended: such a dispatch is dropped silently: no dialog at all, no
\* API call, no re-poll.
C10_SilentlyIgnored ==
    [][ (Dispatched /\ Unparseable) =>
            /\ last'.dialog = None
            /\ last'.call = None
            /\ single_shots' = single_shots
      ]_vars

\* an action was dispatched on the selected row of a guest without vmid
C10_Witness ==
    /\ last.op = "action"
    /\ Tab(last.kind).selected # 0
    /\ Tab(last.kind).items[Tab(last.kind).selected].text = ItemText(GuestOf(0))
    /\ last.call = None

\* C7: the four buttons of a list are all enabled when a row of that list is
\* selected and all disabled when none is, whatever the other list's selection.
C7_ButtonsFollowSelection ==
    monitor # None =>
        \A kind \in Kinds :
            /\ Tab(kind).selected \in 0..Len(Tab(kind).items)
            /\ \A a \in Actions : Tab(kind).buttons[a] = (Tab(kind).selected # 0)

\* a tick has rebuilt the VM list, dropping its selection, while a row of the
\* container list stays selected
C7_Witness ==
    /\ last.op = "update_stats"
    /\ last.outcome = "lxc_raises"
    /\ vm_tab.items # << >> /\ vm_tab.selected = 0
    /\ container_tab.selected = 1

----------------------------------------------------------------------------
(* Poll ticks *)

\* what the overview and the two lists display
Snapshot == << gauges, vm_tab.items, container_tab.items >>

\* the handler of this step was a tick that ended as o
Ticked(o) == last'.op = "update_stats" /\ last'.outcome = o

\* C5 as claimed: a tick one of whose three fetches raises logs the failure and
\* leaves the whole displayed snapshot as it was before the tick.
C5_AsClaimed ==
    [][ (Ticked("status_raises") \/ Ticked("qemu_raises") \/ Ticked("lxc_raises")) =>
            /\ last'.log # None
            /\ Snapshot' = Snapshot
      ]_vars

\* C5 as amended: such a tick logs the failure and leaves unchanged every part
\* of the display whose fetch had not returned: everything when the status
\* fetch raises; both lists when the VM fetch raises, the gauges then showing
\* the status just fetched; the container list when the container fetch raises,
\* the gauges and the VM list then showing what was just fetched.
C5_UnfetchedPartsKept ==
    [][ /\ Ticked("status_raises") =>
              last'.log # None /\ Snapshot' = Snapshot
        /\ Ticked("qemu_raises") =>
              /\ last'.log # None
              /\ gauges' = HostGauges(last'.fetched[1])
              /\ vm_tab'.items = vm_tab.items
              /\ container_tab'.items = container_tab.items
        /\ Ticked("lxc_raises") =>
              /\ last'.log # None
              /\ gauges' = HostGauges(last'.fetched[1])
              /\ vm_tab'.items = GuestItems(last'.fetched[2])
              /\ container_tab'.items = container_tab.items
      ]_vars

\* the container fetch has raised: the gauges show the saturated node and the
\* VM list the VM just fetched, next to the container of an earlier tick
C5_Witness ==
    /\ last.op = "update_stats"
    /\ last.outcome = "lxc_raises"
    /\ last.fetched = << LoadAt(FracDen), << GuestOf(1) >> >>
    /\ gauges.cpu_bar = 100
    /\ Len(vm_tab.items) = 1
    /\ Len(container_tab.items) = 1

\* the guest id a row displays; a row that displays none counts as id 0
DisplayedId(row) ==
    LET id == SearchVmid(row.text) IN IF id = None THEN 0 ELSE id[1]

\* rows holds one row per guest of response and no other, ascending by id
ListsExactly(rows, response) ==
    /\ Len(rows) = Len(response)
    /\ \A i \in DOMAIN response :
           Cardinality({ j \in DOMAIN rows : rows[j].text = ItemText(response[i]) }) = 1
    /\ \A i, j \in DOMAIN rows : i < j => DisplayedId(rows[i]) <= DisplayedId(rows[j])

\* C8: after a tick whose three fetches returned, each list holds exactly one
\* row per guest of the response just fetched for its kind, none of the rows of
\* before, in non-decreasing order of guest id whatever the order returned.
C8_ListsReplacedSorted ==
    (last.op = "update_stats" /\ last.outcome = "ok") =>
        /\ ListsExactly(vm_tab.items, last.fetched[2])
        /\ ListsExactly(container_tab.items, last.fetched[3])

\* the VMs came back in descending order of id and are listed ascending
C8_Witness ==
    /\ last.op = "update_stats"
    /\ last.outcome = "ok"
    /\ last.fetched[2] = << GuestOf(2), GuestOf(1) >>
    /\ Len(vm_tab.items) = 2
    /\ vm_tab.items[1].text = ItemText(GuestOf(1))

\* the fractions behind the four bars of a status, each next to its bar
BarsOf(status) ==
    { << status.cpu, gauges.cpu_bar >>,
      << << status.memory.used, status.memory.total >>, gauges.ram_bar >>,
      << << status.rootfs.used, status.rootfs.total >>, gauges.disk_bar >>,
      << status.wait, gauges.iodelay_bar >> }

\* the gauges show the status of the tick that ran last
GaugesSet == /\ last.op = "update_stats"
             /\ last.outcome \in { "ok", "qemu_raises", "lxc_raises" }

\* C9 as claimed: each bar is fraction * 100 rounded to the nearest integer,
\* within [0,100].
C9_AsClaimed ==
    GaugesSet =>
        \A fb \in BarsOf(last.fetched[1]) :
            LET num == fb[1][1]
                den == fb[1][2]
                bar == fb[2]
                off == 100 * num - bar * den
            IN  /\ bar \in 0..100
                /\ 2 * off <= den
                /\ 2 * off >= 0 - den

\* C9 as amended: each bar is fraction * 100 truncated to an integer, the
\* largest integer not above it, within [0,100].
C9_Truncated ==
    GaugesSet =>
        \A fb \in BarsOf(last.fetched[1]) :
            LET num == fb[1][1]
                den == fb[1][2]
                bar == fb[2]
            IN  /\ bar \in 0..100
                /\ bar * den <= 100 * num
                /\ 100 * num < (bar + 1) * den

\* two thirds of the memory in use: the bar shows 66 where rounding gives 67
C9_Witness ==
    /\ last.op = "update_stats"
    /\ last.outcome = "ok"
    /\ last.fetched[1].memory = [used |-> 2, total |-> 3]
    /\ gauges.ram_bar = 66
    /\ gauges.disk_bar = 33

----------------------------------------------------------------------------
(* The connection while the dashboard runs *)

\* C11: no handler of the running dashboard, tick or dispatch, succeeding or
\* failing, writes the handle or the recorded error or makes a connect attempt:
\* the connection state stays as the startup sequence left it.
C11_ConnectionFrame ==
    [][ pc = "running" =>
            /\ proxmox' = proxmox
            /\ connection_error_details' = connection_error_details
            /\ attempts' = attempts /\ calls' = calls
            /\ outcomes' = outcomes /\ result' = result
      ]_vars

\* a dispatched call has raised after a re-poll ran, the handle still in place
C11_Witness ==
    /\ pc = "running"
    /\ last.op = "action"
    /\ last.raised # None
    /\ single_shots = << >>
    /\ proxmox = Client
    /\ connection_error_details = None
    /\ attempts = 1

----------------------------------------------------------------------------
(* Failed ticks *)

\* the handler of this step was a tick one of whose fetches raised
TickFailed ==
    Ticked("status_raises") \/ Ticked("qemu_raises") \/ Ticked("lxc_raises")

\* C12: a tick that fails only logs: it leaves no dialog, the process running,
\* the periodic timer armed and no timer added; a tick whose fetches all return
\* publishes what it fetched whatever failed before; and until the Exit tab is
\* selected the periodic tick keeps running, however many ticks have failed.
C12_FailedTickSwallowed ==
    /\ [][ /\ TickFailed =>
                 /\ last'.log # None
                 /\ "dialog" \notin DOMAIN last'
                 /\ pc' = "running" /\ exit_status' = None
                 /\ update_timer' /\ update_timer
                 /\ \/ single_shots' = single_shots
                    \/ single_shots' = Tail(single_shots)
           /\ Ticked("ok") =>
                 /\ gauges' = HostGauges(last'.fetched[1])
                 /\ vm_tab'.items = GuestItems(last'.fetched[2])
                 /\ container_tab'.items = GuestItems(last'.fetched[3])
         ]_vars
    /\ \/ []<><<TimerTick(TwoStatuses, SmallNodes)>>_vars
       \/ <>[](pc = "exited")

\* a periodic tick has failed at the VM fetch after an earlier tick had listed
\* a VM: the dashboard runs on, its timer armed
C12_Witness ==
    /\ pc = "running"
    /\ update_timer
    /\ last.op = "update_stats"
    /\ last.timer = UPDATE_INTERVAL_MS
    /\ last.outcome = "qemu_raises"
    /\ vm_tab.items # << >>
    /\ exit_status = None

----------------------------------------------------------------------------
(* The handle and the result of the connect sequence *)

\* C13: the handle is present only if an attempt of the current call both
\* created the client and passed the version probe, and it is absent whenever
\* initialize_proxmox_connection has returned False.
C13_HandleAgreesWithResult ==
    /\ proxmox # None => \E i \in DOMAIN outcomes : outcomes[i] = "ok"
    /\ result = Some(FALSE) => proxmox = None

====
